---- MODULE Spec2Model ----
(***************************************************************************)
(* Cross-process progress aggregation of younger/commons/progress.py:      *)
(* MultipleProcessProgressManager (worker side: update, final; coordinator *)
(* side: progress(), ProgressTracker.update, drain_remaining) over the     *)
(* queue of multiprocessing.Manager().                                     *)
(*                                                                         *)
(* step is a Python float.  It is modelled as the exact rational           *)
(* num / den; int(total * step) is truncation toward zero of that          *)
(* product.  For the steps and totals used below the IEEE double product   *)
(* truncates to the same integer as the exact one.                         *)
(***************************************************************************)
EXTENDS Integers, Sequences, FiniteSets, TLC

\* Number of worker tasks handed to the pool (worker_number, len(tasks)).
NumWorkers == 2
\* Largest len(seq) of one worker's slice.
MaxItems == 3
\* Number of direct update/final calls explored by SpecCalls.
MaxCalls == 2
\* Largest len(sequence) given to split_sequence.
MaxLen == 6
\* Range of total in direct calls: -MaxArg .. MaxArg (and 1000); of
\* current_index: -1 .. MaxArg (and 5, the interval of total 1000 at 0.005).
MaxArg == 3
\* Number of model ids in the list given to convert.main.
NumModels == 2
\* Largest threshold given to convert.main; inferred sizes go one above it.
MaxThreshold == 2
\* Largest number of .onnx files an export leaves in the convert cache.
MaxOnnx == 1
\* Number of models hub.list_models() returns.
NumHubModels == 3

Workers == 1..NumWorkers

\* step values of the usage model: 0.75 and the default 0.005.
Steps ==
    { [num |-> 3, den |-> 4], [num |-> 1, den |-> 200] }

\* step values of direct calls: any sign, and zero.
StepsAny ==
    Steps \cup { [num |-> 0, den |-> 1], [num |-> -3, den |-> 4],
                 [num |-> 1, den |-> 2], [num |-> 1, den |-> 10] }

ArgRange == (-MaxArg)..MaxArg
IndexRange == ((-1)..MaxArg) \cup {5}
TotalRange == ArgRange \cup {1000}

VARIABLES
    step,        \* manager.step, as [num, den] with den > 0
    tracked,     \* history: the worker whose messages are followed, 0 for none
    conv,        \* convert.py: main, its files and the export subprocess
    gen,         \* builder.py: the generator get_onnx_official_onnx_models
    scope,       \* a later scope was entered, and the messages it found queued
    upd,         \* history: what the running tracker.update call found and drained
    queue,       \* contents of manager.queue, oldest first
    qsrc,        \* history: for each queued message, << worker, number >>
    wtotal,      \* wtotal[w]: len(seq) of worker w
    widx,        \* widx[w]: index of the next update call of worker w
    wpc,         \* wpc[w]: "loop" (in the for loop) or "done" (returned)
    sent,        \* history: sum of the values worker w has put
    putw,        \* history: number of messages worker w has put
    nput,        \* history: number of messages put so far
    run_total,   \* the total the caller passes to progress()
    cpc,         \* coordinator's position
    bar_n,       \* tqdm's counter n
    bar_total,   \* tqdm's total
    bar_state,   \* "none", "open" or "closed"
    completed,   \* results the coordinator has taken from pool.imap
    raised,      \* the body of the with-block raised
    got,         \* history: number of messages the tracker has removed
    added,       \* history: sum of the n of the tracker.update calls
    putAtStop,   \* history: nput when the scope exit began
    lastSeq,     \* history: number of worker w's message applied last
    lastCall,    \* the last direct call and what it computed
    ncalls,      \* number of direct calls made
    handle,      \* manager.queue: "proxy" (the manager's queue) or "none"
    copies,      \* the unpickled copy of the manager, if one was made
    lastOutcome, \* how the last direct call ended, and through which object
    split        \* the activation of split_sequence

vars == << step, tracked, conv, gen, scope, upd, queue, qsrc, wtotal, widx, wpc, sent, putw, nput, run_total,
           cpc, bar_n, bar_total, bar_state, completed, raised, got, added,
           putAtStop, lastSeq, lastCall, ncalls, handle, copies, lastOutcome,
           split >>

workerVars == << wtotal, widx, wpc, sent, putw >>
coordVars == << cpc, bar_n, bar_total, bar_state, completed, raised, got,
                added, putAtStop, lastSeq >>
callVars == << lastCall, ncalls, handle, copies, lastOutcome, split >>

----------------------------------------------------------------------------
\* Pure helpers

Max(a, b) == IF a >= b THEN a ELSE b

RECURSIVE SumSeq(_)
SumSeq(s) == IF s = << >> THEN 0 ELSE Head(s) + SumSeq(Tail(s))

\* int(x) of the rational x = n / d (d > 0): truncation toward zero.
IntOf(n, d) == IF n >= 0 THEN n \div d ELSE -((-n) \div d)

\* Python's a // b and a % b for b > 0 (floor division).
FloorDiv(a, b) == a \div b
PyMod(a, b) == a % b

----------------------------------------------------------------------------
\* Worker side: MultipleProcessProgressManager.update / final

\* Mutant: the product is rounded up instead of truncated.
UpdateIntervalCeil(total) ==
    Max(1, -FloorDiv(-(total * step.num), step.den))

\* update_interval = max(1, int(total * self.step))
UpdateInterval(total) == Max(1, IntOf(total * step.num, step.den))

\* Mutant: update sends at index 0 as well.
UpdateMsgsFromZero(current_index, total) ==
    LET update_interval == UpdateInterval(total)
    IN  IF current_index >= 0 /\ PyMod(current_index, update_interval) = 0
        THEN << update_interval >>
        ELSE << >>

\* Mutant: update sends at every index above 0.
UpdateMsgsEvery(current_index, total) ==
    LET update_interval == UpdateInterval(total)
    IN  IF current_index > 0 THEN << update_interval >> ELSE << >>

\* The messages update(current_index, total) puts on the queue.
UpdateMsgs(current_index, total) ==
    LET update_interval == UpdateInterval(total)
    IN  IF current_index > 0 /\ PyMod(current_index, update_interval) = 0
        THEN << update_interval >>
        ELSE << >>

\* Mutant: final puts the remainder without testing remaining > 0.
FinalMsgsNoGuard(total) ==
    LET update_interval == UpdateInterval(total)
    IN  << total - FloorDiv(total, update_interval) * update_interval >>

\* The messages final(total) puts on the queue.
FinalMsgs(total) ==
    LET update_interval == UpdateInterval(total)
        last_reported_index == FloorDiv(total, update_interval) * update_interval
        remaining == total - last_reported_index
    IN  IF remaining > 0 THEN << remaining >> ELSE << >>

\* Mutant: the counter is assigned, not incremented.
BarUpdateSet(n, increment) == increment

\* tqdm.update(n): self.n += n
BarUpdate(n, increment) == n + increment

\* multiprocessing.Manager().Queue() is queue.Queue(maxsize=0).
QueueMaxSize == 0

\* Mutant: the queue is created with maxsize=1.
PutEnabledBounded(q) == Len(q) < 1

\* queue.Queue.put returns without waiting: always when maxsize <= 0,
\* otherwise when fewer than maxsize messages are queued.
PutEnabled(q) == QueueMaxSize <= 0 \/ Len(q) < QueueMaxSize

\* History: the tags of the messages a producer adds to the queue, numbered
\* from the count of messages it has put before.
Tags(w, before, msgs) ==
    [k \in 1..Len(msgs) |-> IF tracked = w THEN << w, before + k >> ELSE << 0, 0 >>]

\* History: the number of the message applied last, per worker.
Applied(last, tag) ==
    IF tag[1] \in DOMAIN last THEN [last EXCEPT ![tag[1]] = tag[2]] ELSE last

\* The state of the coordinator side, from its position in progress().
ListenerState ==
    CASE cpc = "idle" -> "Idle"
      [] cpc \in {"body", "upd_test", "upd_get", "upd_add"} -> "Running"
      [] cpc \in {"drain_test", "drain_get", "close"} -> "Draining"
      [] cpc = "closed" -> "Closed"

----------------------------------------------------------------------------
\* Initial states

CoordInit ==
    /\ cpc = "idle"
    /\ bar_n = 0
    /\ bar_total = 0
    /\ bar_state = "none"
    /\ completed = 0
    /\ raised = FALSE
    /\ got = 0
    /\ added = 0
    /\ putAtStop = 0
    /\ lastSeq = [w \in Workers |-> 0]

\* No direct call has been made; split_sequence has not been called.
NoOutcome == [via |-> "none", handle |-> "none", result |-> "none"]
NoSplit == [pc |-> "none"]

\* convert.main is not running; the generator of builder.py is not created.
NoConv == [pc |-> "none"]
NoGen == [pc |-> "none"]

\* The first progress() scope on the manager.
FirstScope == [again |-> FALSE, stale |-> 0]

\* No tracker.update call is running.
NoUpd == [bar_n |-> 0, nput |-> 0, queued |-> 0, gets |-> 0, drained |-> 0]

NoCall == [op |-> "none", index |-> 0, total |-> 0, interval |-> 0, msgs |-> << >>]

\* The docstring's usage: one task per worker, progress(total=len(tasks)).
Init ==
    /\ step \in Steps
    /\ tracked = 0
    /\ upd = NoUpd
    /\ conv = NoConv
    /\ gen = NoGen
    /\ scope = FirstScope
    /\ queue = << >>
    /\ qsrc = << >>
    /\ wtotal \in [Workers -> 0..MaxItems]
    /\ widx = [w \in Workers |-> 0]
    /\ wpc = [w \in Workers |-> "loop"]
    /\ sent = [w \in Workers |-> 0]
    /\ putw = [w \in Workers |-> 0]
    /\ nput = 0
    /\ run_total = NumWorkers
    /\ CoordInit
    /\ lastCall = NoCall
    /\ ncalls = 0
    /\ handle = "proxy"
    /\ copies = << >>
    /\ lastOutcome = NoOutcome
    /\ split = NoSplit

----------------------------------------------------------------------------
\* Worker process (docstring lines 46-53):
\*   for i, item in enumerate(seq): manager.update(i, len(seq))
\*   manager.final(len(seq)); return result

WorkerUpdate(w) ==
    /\ cpc # "idle"
    /\ wpc[w] = "loop"
    /\ widx[w] < wtotal[w]
    /\ LET msgs == UpdateMsgs(widx[w], wtotal[w])
       IN  /\ msgs # << >> => PutEnabled(queue)
           /\ queue' = queue \o msgs
           /\ qsrc' = qsrc \o Tags(w, putw[w], msgs)
           /\ sent' = [sent EXCEPT ![w] = @ + SumSeq(msgs)]
           /\ putw' = [putw EXCEPT ![w] = @ + Len(msgs)]
           /\ nput' = nput + Len(msgs)
    /\ widx' = [widx EXCEPT ![w] = @ + 1]
    /\ UNCHANGED << step, tracked, conv, gen, scope, upd, wtotal, wpc, run_total, coordVars, callVars >>

\* Mutant: the worker also adds its remainder to the bar itself.
WorkerFinalTouchBar(w) ==
    /\ cpc # "idle"
    /\ wpc[w] = "loop"
    /\ widx[w] = wtotal[w]
    /\ LET msgs == FinalMsgs(wtotal[w])
       IN  /\ msgs # << >> => PutEnabled(queue)
           /\ queue' = queue \o msgs
           /\ qsrc' = qsrc \o Tags(w, putw[w], msgs)
           /\ sent' = [sent EXCEPT ![w] = @ + SumSeq(msgs)]
           /\ putw' = [putw EXCEPT ![w] = @ + Len(msgs)]
           /\ nput' = nput + Len(msgs)
           /\ bar_n' = BarUpdate(bar_n, SumSeq(msgs) + 1)
    /\ wpc' = [wpc EXCEPT ![w] = "done"]
    /\ UNCHANGED << step, tracked, conv, gen, scope, upd, wtotal, widx, run_total, cpc, bar_total, bar_state,
                    completed, raised, got, added, putAtStop, lastSeq,
                    callVars >>

WorkerFinal(w) ==
    /\ cpc # "idle"
    /\ wpc[w] = "loop"
    /\ widx[w] = wtotal[w]
    /\ LET msgs == FinalMsgs(wtotal[w])
       IN  /\ msgs # << >> => PutEnabled(queue)
           /\ queue' = queue \o msgs
           /\ qsrc' = qsrc \o Tags(w, putw[w], msgs)
           /\ sent' = [sent EXCEPT ![w] = @ + SumSeq(msgs)]
           /\ putw' = [putw EXCEPT ![w] = @ + Len(msgs)]
           /\ nput' = nput + Len(msgs)
    /\ wpc' = [wpc EXCEPT ![w] = "done"]
    /\ UNCHANGED << step, tracked, conv, gen, scope, upd, wtotal, widx, run_total, coordVars, callVars >>

----------------------------------------------------------------------------
\* Coordinator: with manager.progress(total) as tracker: <body>

\* progress(): ProgressTracker(self.queue, tqdm.tqdm(total=total)), then yield.
ProgressEnter ==
    /\ cpc = "idle"
    /\ cpc' = "body"
    /\ bar_state' = "open"
    /\ bar_n' = 0
    /\ bar_total' = run_total
    /\ UNCHANGED << step, tracked, conv, gen, scope, upd, queue, qsrc, workerVars, nput, run_total, completed, raised,
                    got, added, putAtStop, lastSeq, callVars >>

\* for result in pool.imap(worker_func, tasks): the next result, in task order.
BodyNextResult ==
    /\ cpc = "body"
    /\ completed < NumWorkers
    /\ wpc[completed + 1] = "done"
    /\ completed' = completed + 1
    /\ cpc' = "upd_test"
    /\ upd' = [bar_n |-> bar_n, nput |-> nput, queued |-> Len(queue),
               gets |-> 0, drained |-> 0]
    /\ UNCHANGED << step, tracked, conv, gen, scope, queue, qsrc, workerVars, nput, run_total, bar_n, bar_total,
                    bar_state, raised, got, added, putAtStop, lastSeq, callVars >>

\* Mutant: the loop of tracker.update takes one message at most.
TrackerUpdateTestOnce ==
    /\ cpc = "upd_test"
    /\ cpc' = IF queue = << >> \/ upd.gets >= 1 THEN "upd_add" ELSE "upd_get"
    /\ UNCHANGED << step, tracked, conv, gen, scope, upd, queue, qsrc, workerVars, nput, run_total, bar_n, bar_total,
                    bar_state, completed, raised, got, added, putAtStop, lastSeq, callVars >>

\* tracker.update(): while not self.queue.empty()
TrackerUpdateTest ==
    /\ cpc = "upd_test"
    /\ cpc' = IF queue = << >> THEN "upd_add" ELSE "upd_get"
    /\ UNCHANGED << step, tracked, conv, gen, scope, upd, queue, qsrc, workerVars, nput, run_total, bar_n, bar_total,
                    bar_state, completed, raised, got, added, putAtStop, lastSeq, callVars >>

\* Mutant: the message is taken from the queue and not applied to the bar.
TrackerUpdateGetDrop ==
    /\ cpc = "upd_get"
    /\ IF queue = << >>
       THEN /\ cpc' = "upd_add"
            /\ UNCHANGED << upd, queue, qsrc, got, lastSeq >>
       ELSE /\ queue' = Tail(queue)
            /\ qsrc' = Tail(qsrc)
            /\ lastSeq' = Applied(lastSeq, Head(qsrc))
            /\ got' = got + 1
            /\ upd' = [upd EXCEPT !.gets = @ + 1, !.drained = @ + Head(queue)]
            /\ cpc' = "upd_test"
    /\ UNCHANGED << step, tracked, conv, gen, scope, workerVars, nput, run_total, bar_n, bar_total,
                    bar_state, completed, raised, added, putAtStop, callVars >>

\* tracker.update(): increment = get_nowait(); progress_bar.update(increment);
\* an exception (queue.Empty) breaks the loop.
TrackerUpdateGet ==
    /\ cpc = "upd_get"
    /\ IF queue = << >>
       THEN /\ cpc' = "upd_add"
            /\ UNCHANGED << upd, queue, qsrc, bar_n, got, lastSeq >>
       ELSE /\ bar_n' = BarUpdate(bar_n, Head(queue))
            /\ queue' = Tail(queue)
            /\ qsrc' = Tail(qsrc)
            /\ lastSeq' = Applied(lastSeq, Head(qsrc))
            /\ got' = got + 1
            /\ upd' = [upd EXCEPT !.gets = @ + 1, !.drained = @ + Head(queue)]
            /\ cpc' = "upd_test"
    /\ UNCHANGED << step, tracked, conv, gen, scope, workerVars, nput, run_total, bar_total, bar_state,
                    completed, raised, added, putAtStop, callVars >>

\* tracker.update(): self.progress_bar.update(n), n = 1 by default.
TrackerUpdateAdd ==
    /\ cpc = "upd_add"
    /\ bar_n' = BarUpdate(bar_n, 1)
    /\ added' = added + 1
    /\ cpc' = "body"
    /\ upd' = NoUpd
    /\ UNCHANGED << step, tracked, conv, gen, scope, queue, qsrc, workerVars, nput, run_total, bar_total,
                    bar_state, completed, raised, got, putAtStop, lastSeq, callVars >>

\* Mutant: the finally block closes the bar before it drains.
BodyExitCloseFirst ==
    /\ cpc = "body"
    /\ completed = NumWorkers
    /\ cpc' = "drain_test"
    /\ bar_state' = "closed"
    /\ putAtStop' = nput
    /\ UNCHANGED << step, tracked, conv, gen, scope, upd, queue, qsrc, workerVars, nput, run_total, bar_n, bar_total,
                    completed, raised, got, added, lastSeq, callVars >>

\* Mutant: the body's loop ends one result early.
BodyExitEarly ==
    /\ cpc = "body"
    /\ completed >= NumWorkers - 1
    /\ cpc' = "drain_test"
    /\ putAtStop' = nput
    /\ UNCHANGED << step, tracked, conv, gen, scope, upd, queue, qsrc, workerVars, nput, run_total, bar_n, bar_total,
                    bar_state, completed, raised, got, added, lastSeq, callVars >>

\* The body ends normally: every result was taken.
BodyExit ==
    /\ cpc = "body"
    /\ completed = NumWorkers
    /\ cpc' = "drain_test"
    /\ putAtStop' = nput
    /\ UNCHANGED << step, tracked, conv, gen, scope, upd, queue, qsrc, workerVars, nput, run_total, bar_n, bar_total,
                    bar_state, completed, raised, got, added, lastSeq, callVars >>

\* Mutant: after the body raised the bar is closed without draining.
BodyRaiseNoDrain ==
    /\ cpc = "body"
    /\ completed < NumWorkers
    /\ raised' = TRUE
    /\ cpc' = "close"
    /\ putAtStop' = nput
    /\ UNCHANGED << step, tracked, conv, gen, scope, upd, queue, qsrc, workerVars, nput, run_total, bar_n, bar_total,
                    bar_state, completed, got, added, lastSeq, callVars >>

\* The body raises (e.g. the worker pool): control passes to the finally block.
BodyRaise ==
    /\ cpc = "body"
    /\ completed < NumWorkers
    /\ raised' = TRUE
    /\ cpc' = "drain_test"
    /\ putAtStop' = nput
    /\ UNCHANGED << step, tracked, conv, gen, scope, upd, queue, qsrc, workerVars, nput, run_total, bar_n, bar_total,
                    bar_state, completed, got, added, lastSeq, callVars >>

\* Mutant: the finally block stops without looking at the queue.
DrainTestSkip ==
    /\ cpc = "drain_test"
    /\ cpc' = "close"
    /\ UNCHANGED << step, tracked, conv, gen, scope, upd, queue, qsrc, workerVars, nput, run_total, bar_n, bar_total,
                    bar_state, completed, raised, got, added, putAtStop, lastSeq, callVars >>

\* Mutant: with the queue empty the finally block waits until every worker
\* has returned.
DrainTestWait ==
    /\ cpc = "drain_test"
    /\ queue = << >> => \A w \in Workers : wpc[w] = "done"
    /\ cpc' = IF queue = << >> THEN "close" ELSE "drain_get"
    /\ UNCHANGED << step, tracked, conv, gen, scope, upd, queue, qsrc, workerVars, nput, run_total, bar_n, bar_total,
                    bar_state, completed, raised, got, added, putAtStop, lastSeq, callVars >>

\* drain_remaining(): while not self.queue.empty()
DrainTest ==
    /\ cpc = "drain_test"
    /\ cpc' = IF queue = << >> THEN "close" ELSE "drain_get"
    /\ UNCHANGED << step, tracked, conv, gen, scope, upd, queue, qsrc, workerVars, nput, run_total, bar_n, bar_total,
                    bar_state, completed, raised, got, added, putAtStop, lastSeq, callVars >>

\* Mutant: the newest message is taken first.
DrainGetLifo ==
    /\ cpc = "drain_get"
    /\ IF queue = << >>
       THEN /\ cpc' = "close"
            /\ UNCHANGED << queue, qsrc, bar_n, got, lastSeq >>
       ELSE /\ bar_n' = BarUpdate(bar_n, queue[Len(queue)])
            /\ queue' = SubSeq(queue, 1, Len(queue) - 1)
            /\ qsrc' = SubSeq(qsrc, 1, Len(qsrc) - 1)
            /\ lastSeq' = Applied(lastSeq, qsrc[Len(qsrc)])
            /\ got' = got + 1
            /\ cpc' = "drain_test"
    /\ UNCHANGED << step, tracked, conv, gen, scope, upd, workerVars, nput, run_total, bar_total, bar_state,
                    completed, raised, added, putAtStop, callVars >>

\* drain_remaining(): get_nowait(); progress_bar.update(increment)
DrainGet ==
    /\ cpc = "drain_get"
    /\ IF queue = << >>
       THEN /\ cpc' = "close"
            /\ UNCHANGED << queue, qsrc, bar_n, got, lastSeq >>
       ELSE /\ bar_n' = BarUpdate(bar_n, Head(queue))
            /\ queue' = Tail(queue)
            /\ qsrc' = Tail(qsrc)
            /\ lastSeq' = Applied(lastSeq, Head(qsrc))
            /\ got' = got + 1
            /\ cpc' = "drain_test"
    /\ UNCHANGED << step, tracked, conv, gen, scope, upd, workerVars, nput, run_total, bar_total, bar_state,
                    completed, raised, added, putAtStop, callVars >>

\* progress_tracker.progress_bar.close()
BarClose ==
    /\ cpc = "close"
    /\ bar_state' = "closed"
    /\ cpc' = "closed"
    /\ UNCHANGED << step, tracked, conv, gen, scope, upd, queue, qsrc, workerVars, nput, run_total, bar_n, bar_total,
                    completed, raised, got, added, putAtStop, lastSeq, callVars >>

\* A later "with manager.progress(total)" on the same manager, after the
\* first scope has exited: a new bar, a new pool running the tasks again (the
\* workers of the first pool are gone), and the same queue.
ProgressAgain ==
    /\ cpc = "closed"
    /\ ~scope.again
    /\ scope' = [again |-> TRUE, stale |-> Len(queue)]
    /\ cpc' = "body"
    /\ bar_state' = "open"
    /\ bar_n' = 0
    /\ bar_total' = run_total
    /\ completed' = 0
    /\ raised' = FALSE
    /\ widx' = [w \in Workers |-> 0]
    /\ wpc' = [w \in Workers |-> "loop"]
    /\ sent' = [w \in Workers |-> 0]
    /\ putw' = [w \in Workers |-> 0]
    /\ nput' = 0
    /\ got' = 0
    /\ added' = 0
    /\ putAtStop' = 0
    /\ lastSeq' = [w \in Workers |-> 0]
    /\ UNCHANGED << step, tracked, conv, gen, upd, queue, qsrc, wtotal, run_total, callVars >>

\* The coordinator's steps on a run in which the body does not raise.
CoordinatorNormal ==
    \/ ProgressEnter
    \/ BodyNextResult
    \/ TrackerUpdateTest
    \/ TrackerUpdateGet
    \/ TrackerUpdateAdd
    \/ BodyExit
    \/ DrainTest
    \/ DrainGet
    \/ BarClose

Next ==
    \/ \E w \in Workers : WorkerUpdate(w)
    \/ \E w \in Workers : WorkerFinal(w)
    \/ CoordinatorNormal
    \/ BodyRaise

Spec == Init /\ [][Next]_vars

\* The runs checked for liveness: every worker's sequence is shorter than
\* MaxItems.
InitLive ==
    /\ Init
    /\ \A w \in Workers : wtotal[w] < MaxItems


\* Two scopes in a row on one manager.
NextRuns ==
    \/ Next
    \/ ProgressAgain

SpecRuns == InitLive /\ [][NextRuns]_vars

\* The coordinator runs sequential, non-blocking code: it keeps taking steps.
FairSpec == InitLive /\ [][Next]_vars /\ WF_vars(CoordinatorNormal)

\* The docstring's usage with the messages of one worker followed through the
\* queue; the other workers have shorter sequences.
InitFifo ==
    /\ step \in Steps
    /\ tracked \in Workers
    /\ upd = NoUpd
    /\ conv = NoConv
    /\ gen = NoGen
    /\ scope = FirstScope
    /\ queue = << >>
    /\ qsrc = << >>
    /\ wtotal \in [Workers -> 0..MaxItems]
    /\ \A w \in Workers \ {tracked} : wtotal[w] < MaxItems
    /\ widx = [w \in Workers |-> 0]
    /\ wpc = [w \in Workers |-> "loop"]
    /\ sent = [w \in Workers |-> 0]
    /\ putw = [w \in Workers |-> 0]
    /\ nput = 0
    /\ run_total = NumWorkers
    /\ CoordInit
    /\ lastCall = NoCall
    /\ ncalls = 0
    /\ handle = "proxy"
    /\ copies = << >>
    /\ lastOutcome = NoOutcome
    /\ split = NoSplit

SpecFifo == InitFifo /\ [][Next]_vars

----------------------------------------------------------------------------
\* The end-to-end scenario: step 0.1, progress(total=100), two workers of 50
\* items each.

InitE2E ==
    /\ step = [num |-> 1, den |-> 10]
    /\ tracked = 0
    /\ upd = NoUpd
    /\ conv = NoConv
    /\ gen = NoGen
    /\ scope = FirstScope
    /\ queue = << >>
    /\ qsrc = << >>
    /\ wtotal = [w \in Workers |-> 50]
    /\ widx = [w \in Workers |-> 0]
    /\ wpc = [w \in Workers |-> "loop"]
    /\ sent = [w \in Workers |-> 0]
    /\ putw = [w \in Workers |-> 0]
    /\ nput = 0
    /\ run_total = 100
    /\ CoordInit
    /\ lastCall = NoCall
    /\ ncalls = 0
    /\ handle = "proxy"
    /\ copies = << >>
    /\ lastOutcome = NoOutcome
    /\ split = NoSplit

SpecE2E == InitE2E /\ [][Next]_vars

----------------------------------------------------------------------------
\* Direct calls of update and final with arbitrary arguments, on a manager
\* constructed with an arbitrary step.

InitCalls ==
    /\ step \in StepsAny
    /\ tracked = 0
    /\ upd = NoUpd
    /\ conv = NoConv
    /\ gen = NoGen
    /\ scope = FirstScope
    /\ queue = << >>
    /\ qsrc = << >>
    /\ wtotal = [w \in Workers |-> 0]
    /\ widx = [w \in Workers |-> 0]
    /\ wpc = [w \in Workers |-> "loop"]
    /\ sent = [w \in Workers |-> 0]
    /\ putw = [w \in Workers |-> 0]
    /\ nput = 0
    /\ run_total = 0
    /\ CoordInit
    /\ lastCall = NoCall
    /\ ncalls = 0
    /\ handle = "proxy"
    /\ copies = << >>
    /\ lastOutcome = NoOutcome
    /\ split = NoSplit

\* The manager object of the calling process.
ManagerObject == [queue |-> handle, worker_number |-> NumWorkers, step |-> step]

\* __getstate__: the dict that is pickled.
GetState(m) ==
    [queue |-> m.queue, worker_number |-> m.worker_number, step |-> m.step]

\* Mutant: the copy gets a queue of its own instead of the pickled reference.
SetStateDuplicate(state) ==
    [queue |-> "duplicate", worker_number |-> state.worker_number,
     step |-> state.step]

\* __setstate__: the object rebuilt from the dict.
SetState(state) ==
    [queue |-> state.queue, worker_number |-> state.worker_number,
     step |-> state.step]

\* The objects a call can be made through, and the self.queue of each.
Targets == {"manager"} \cup (IF copies = << >> THEN {} ELSE {"copy"})
HandleOf(via) == IF via = "manager" THEN handle ELSE copies[1].queue

\* Mutant: every call on a manager without a queue raises.
CallOutcomeStrict(h, msgs) == IF h = "none" THEN "raised" ELSE "returned"

\* self.queue.put(...) raises AttributeError when self.queue is None; a call
\* that puts nothing does not read self.queue.
CallOutcome(h, msgs) ==
    IF msgs # << >> /\ h = "none" THEN "raised" ELSE "returned"

\* The manager's queue after msgs were put through handle h.
Delivered(h, q, msgs) == IF h = "proxy" THEN q \o msgs ELSE q

\* manager.update(current_index, total)
CallUpdate ==
    /\ ncalls < MaxCalls
    /\ \E via \in Targets, current_index \in IndexRange, total \in TotalRange :
         LET h == HandleOf(via)
             want == UpdateMsgs(current_index, total)
             result == CallOutcome(h, want)
             msgs == IF result = "returned" THEN want ELSE << >>
         IN  /\ msgs # << >> => PutEnabled(queue)
             /\ queue' = Delivered(h, queue, msgs)
             /\ qsrc' = Delivered(h, qsrc, Tags(0, nput, msgs))
             /\ nput' = nput + (Len(queue') - Len(queue))
             /\ lastCall' = [op |-> "update", index |-> current_index,
                             total |-> total,
                             interval |-> UpdateInterval(total), msgs |-> msgs]
             /\ lastOutcome' = [via |-> via, handle |-> h, result |-> result]
    /\ ncalls' = ncalls + 1
    /\ UNCHANGED << step, tracked, conv, gen, scope, upd, workerVars, run_total, coordVars, handle, copies,
                    split >>

\* manager.final(total)
CallFinal ==
    /\ ncalls < MaxCalls
    /\ \E via \in Targets, total \in TotalRange :
         LET h == HandleOf(via)
             want == FinalMsgs(total)
             result == CallOutcome(h, want)
             msgs == IF result = "returned" THEN want ELSE << >>
         IN  /\ msgs # << >> => PutEnabled(queue)
             /\ queue' = Delivered(h, queue, msgs)
             /\ qsrc' = Delivered(h, qsrc, Tags(0, nput, msgs))
             /\ nput' = nput + (Len(queue') - Len(queue))
             /\ lastCall' = [op |-> "final", index |-> 0, total |-> total,
                             interval |-> UpdateInterval(total), msgs |-> msgs]
             /\ lastOutcome' = [via |-> via, handle |-> h, result |-> result]
    /\ ncalls' = ncalls + 1
    /\ UNCHANGED << step, tracked, conv, gen, scope, upd, workerVars, run_total, coordVars, handle, copies,
                    split >>

\* manager.cleanup(): self.queue = None
Cleanup ==
    /\ handle = "proxy"
    /\ handle' = "none"
    /\ UNCHANGED << step, tracked, conv, gen, scope, upd, queue, qsrc, workerVars, nput, run_total, coordVars,
                    lastCall, ncalls, copies, lastOutcome, split >>

\* The manager is pickled into a task and unpickled in a worker process.
Pickle ==
    /\ copies = << >>
    /\ copies' = << SetState(GetState(ManagerObject)) >>
    /\ UNCHANGED << step, tracked, conv, gen, scope, upd, queue, qsrc, workerVars, nput, run_total, coordVars,
                    lastCall, ncalls, handle, lastOutcome, split >>

NextCalls ==
    \/ CallUpdate
    \/ CallFinal
    \/ Cleanup
    \/ Pickle

SpecCalls == InitCalls /\ [][NextCalls]_vars

----------------------------------------------------------------------------
\* younger/commons/utils.py: split_sequence(sequence, chunk_count)

Min(a, b) == IF a <= b THEN a ELSE b

\* sequence[a:b] for a, b >= 0: the elements at 0-based positions a .. b-1,
\* cut at the end of the sequence.
Slice(s, a, b) ==
    LET lo == Min(a, Len(s))
        hi == Min(b, Len(s))
    IN  IF lo >= hi THEN << >> ELSE SubSeq(s, lo + 1, hi)

\* Mutant: the extra element goes to the chunks with i <= r.
ChunkEndInclusive(start, q, r, i) == start + q + (IF i <= r THEN 1 ELSE 0)

\* end = start + q + (1 if i < r else 0)
ChunkEnd(start, q, r, i) == start + q + (IF i < r THEN 1 ELSE 0)

\* The calls explored: sequences 1 .. n, chunk_count from -1 to MaxLen + 1.
SplitCalls ==
    { [pc |-> "called", sequence |-> [k \in 1..n |-> k], chunk_count |-> c,
       q |-> 0, r |-> 0, chunks |-> << >>, start |-> 0, i |-> 0] :
      n \in 0..MaxLen, c \in (-1)..(MaxLen + 1) }

InitSplit ==
    /\ step = [num |-> 1, den |-> 200]
    /\ tracked = 0
    /\ upd = NoUpd
    /\ conv = NoConv
    /\ gen = NoGen
    /\ scope = FirstScope
    /\ queue = << >>
    /\ qsrc = << >>
    /\ wtotal = [w \in Workers |-> 0]
    /\ widx = [w \in Workers |-> 0]
    /\ wpc = [w \in Workers |-> "loop"]
    /\ sent = [w \in Workers |-> 0]
    /\ putw = [w \in Workers |-> 0]
    /\ nput = 0
    /\ run_total = 0
    /\ CoordInit
    /\ lastCall = NoCall
    /\ ncalls = 0
    /\ handle = "proxy"
    /\ copies = << >>
    /\ lastOutcome = NoOutcome
    /\ split \in SplitCalls

splitFrame == << step, tracked, conv, gen, scope, upd, queue, qsrc, workerVars, nput, run_total, coordVars,
                lastCall, ncalls, handle, copies, lastOutcome >>

\* Mutant: the assertion tests only 0 < chunk_count.
SplitAssertNoUpper ==
    /\ split.pc = "called"
    /\ IF 0 < split.chunk_count
       THEN split' = [split EXCEPT
                        !.pc = "loop",
                        !.q = FloorDiv(Len(split.sequence), split.chunk_count),
                        !.r = PyMod(Len(split.sequence), split.chunk_count)]
       ELSE split' = [split EXCEPT !.pc = "failed"]
    /\ UNCHANGED splitFrame

\* assert 0 < chunk_count <= len(sequence); q, r = divmod(len(sequence),
\* chunk_count); chunks = list(); start = 0
SplitAssert ==
    /\ split.pc = "called"
    /\ IF 0 < split.chunk_count /\ split.chunk_count <= Len(split.sequence)
       THEN split' = [split EXCEPT
                        !.pc = "loop",
                        !.q = FloorDiv(Len(split.sequence), split.chunk_count),
                        !.r = PyMod(Len(split.sequence), split.chunk_count)]
       ELSE split' = [split EXCEPT !.pc = "failed"]
    /\ UNCHANGED splitFrame

\* One iteration of: for i in range(chunk_count)
SplitIter ==
    /\ split.pc = "loop"
    /\ split.i < split.chunk_count
    /\ LET end == ChunkEnd(split.start, split.q, split.r, split.i)
       IN  split' = [split EXCEPT
                       !.chunks = Append(@, Slice(split.sequence, split.start, end)),
                       !.start = end,
                       !.i = @ + 1]
    /\ UNCHANGED splitFrame

\* return chunks
SplitReturn ==
    /\ split.pc = "loop"
    /\ split.i = split.chunk_count
    /\ split' = [split EXCEPT !.pc = "returned"]
    /\ UNCHANGED splitFrame

NextSplit ==
    \/ SplitAssert
    \/ SplitIter
    \/ SplitReturn

SpecSplit == InitSplit /\ [][NextSplit]_vars

----------------------------------------------------------------------------
\* convert.py: main converts the models of a list one at a time, each export
\* in a subprocess, and keeps a status file so that a rerun skips what was
\* done.

ModelIds == 1..NumModels
Thresholds == 1..MaxThreshold
Sizes == 1..(MaxThreshold + 1)

\* str(t) for an int t >= 0, as its decimal digits.
RECURSIVE Digits(_)
Digits(t) == IF t < 10 THEN << t >> ELSE Digits(t \div 10) \o << t % 10 >>

\* int(text) for a text of decimal digits.
RECURSIVE Number(_)
Number(ds) ==
    IF ds = << >> THEN 0
    ELSE Number(SubSeq(ds, 1, Len(ds) - 1)) * 10 + ds[Len(ds)]

\* The status strings: f'threshold_{threshold}' and the fixed ones.
ThresholdStatus(t) == [prefix |-> "threshold_", digits |-> Digits(t)]
FixedStatus(name) == [prefix |-> name, digits |-> << >>]

\* re.fullmatch('threshold_(\d+)', status): the status matches.
IsThresholdStatus(status) ==
    /\ status.prefix = "threshold_"
    /\ status.digits # << >>
    /\ \A k \in 1..Len(status.digits) : status.digits[k] \in 0..9

\* dict(model_source='HuggingFace', model_name=model_id, status=status)
StatusRecord(model_id, status) ==
    [model_source |-> "HuggingFace", model_name |-> model_id, status |-> status]

\* Lines 83-91: the ids of the saved HuggingFace instances are removed.
AfterInstances(model_ids, saved) == model_ids \ saved

\* Lines 107-122: what one line of the status file does to model_ids.
StatusLine(model_ids, status, threshold) ==
    IF status.model_source # "HuggingFace" THEN model_ids
    ELSE IF status.model_name \notin model_ids THEN model_ids
    ELSE IF IsThresholdStatus(status.status)
         THEN IF threshold <= Number(status.status.digits)
              THEN model_ids \ {status.model_name}
              ELSE model_ids
         ELSE model_ids \ {status.model_name}

\* Lines 93-122: the lines of the status file, in order.
RECURSIVE AfterStatus(_, _, _)
AfterStatus(model_ids, lines, threshold) ==
    IF lines = << >> THEN model_ids
    ELSE AfterStatus(StatusLine(model_ids, Head(lines), threshold),
                     Tail(lines), threshold)

\* The status written by the handler of each exception of subprocess_export.
ErrorStatus(error) ==
    CASE error = "MemoryError" -> FixedStatus("memory_error")
      [] error = "RepositoryNotFoundError" -> FixedStatus("access_error")
      [] error = "Exception" -> FixedStatus("convert_error")

ExportOutcomes == {"ok", "MemoryError", "RepositoryNotFoundError", "Exception"}

\* main(...) is called on an empty save directory, with no status file.
ConvertCalls ==
    { [pc |-> "check", run |-> 1, threshold |-> t, first_threshold |-> t,
       model_ids |-> ModelIds, model_id |-> 0, status_file |-> << >>,
       saved |-> {}, child |-> "none", error |-> "none",
       result_queue |-> << >>, wrote |-> 0, cache |-> "clean", files |-> 0,
       attempted |-> {}, attempted_again |-> {}] : t \in Thresholds }

InitConvert ==
    /\ step = [num |-> 1, den |-> 200]
    /\ tracked = 0
    /\ upd = NoUpd
    /\ scope = FirstScope
    /\ gen = NoGen
    /\ queue = << >>
    /\ qsrc = << >>
    /\ wtotal = [w \in Workers |-> 0]
    /\ widx = [w \in Workers |-> 0]
    /\ wpc = [w \in Workers |-> "loop"]
    /\ sent = [w \in Workers |-> 0]
    /\ putw = [w \in Workers |-> 0]
    /\ nput = 0
    /\ run_total = 0
    /\ CoordInit
    /\ lastCall = NoCall
    /\ ncalls = 0
    /\ handle = "proxy"
    /\ copies = << >>
    /\ lastOutcome = NoOutcome
    /\ split = NoSplit
    /\ conv \in ConvertCalls

convFrame == << step, tracked, gen, scope, upd, queue, qsrc, workerVars, nput,
               run_total, coordVars, callVars >>

\* save_status: one line is appended to the status file.
SaveStatus(lines, model_id, status) ==
    Append(lines, StatusRecord(model_id, status))

\* Lines 80-124: model_ids without the models saved or recorded before.
ConvCheck ==
    /\ conv.pc = "check"
    /\ conv' = [conv EXCEPT
                  !.pc = "loop",
                  !.model_ids = AfterStatus(AfterInstances(ModelIds, conv.saved),
                                            conv.status_file, conv.threshold)]
    /\ UNCHANGED convFrame

\* Line 127: the next model_id of the set, in any order.
ConvNext ==
    /\ conv.pc = "loop"
    /\ \E m \in conv.model_ids :
         conv' = [conv EXCEPT
                    !.pc = "infer",
                    !.model_id = m,
                    !.model_ids = @ \ {m},
                    !.attempted = IF conv.run = 1 THEN @ \cup {m} ELSE @,
                    !.attempted_again = IF conv.run = 1 THEN @ ELSE @ \cup {m}]
    /\ UNCHANGED convFrame

\* Line 190: the loop is over.
ConvFinish ==
    /\ conv.pc = "loop"
    /\ conv.model_ids = {}
    /\ conv' = [conv EXCEPT !.pc = "done"]
    /\ UNCHANGED convFrame

\* Lines 128-147: infer_model_size raises, or the model is larger than the
\* threshold, or the export subprocess is started and joined.
ConvInfer ==
    /\ conv.pc = "infer"
    /\ \/ conv' = [conv EXCEPT
                     !.pc = "loop",
                     !.status_file = SaveStatus(@, conv.model_id,
                                                FixedStatus("access_error"))]
       \/ \E infered_model_size \in Sizes :
            IF infered_model_size > conv.threshold
            THEN conv' = [conv EXCEPT
                            !.pc = "loop",
                            !.status_file =
                                SaveStatus(@, conv.model_id,
                                           ThresholdStatus(conv.threshold))]
            ELSE conv' = [conv EXCEPT
                            !.pc = "wait",
                            !.child = "export",
                            !.error = "none",
                            !.wrote = 0,
                            !.result_queue = << >>]
    /\ UNCHANGED convFrame

\* subprocess_export, lines 36-38 and the except clauses: main_export returns
\* and True is put, or it raises and a handler is entered.
ChildExport ==
    /\ conv.pc = "wait"
    /\ conv.child = "export"
    /\ \E outcome \in ExportOutcomes :
         IF outcome = "ok"
         THEN conv' = [conv EXCEPT
                         !.cache = "dirty",
                         !.result_queue = Append(@, TRUE),
                         !.child = "returned"]
         ELSE conv' = [conv EXCEPT
                         !.cache = "dirty",
                         !.error = outcome,
                         !.child = "handler"]
    /\ UNCHANGED convFrame

\* Mutant: the handler writes no status record.
ChildSaveStatusSkip ==
    /\ conv.pc = "wait"
    /\ conv.child = "handler"
    /\ conv' = [conv EXCEPT !.child = "clean"]
    /\ UNCHANGED convFrame

\* Lines 41, 46, 51: save_status in the handler.
ChildSaveStatus ==
    /\ conv.pc = "wait"
    /\ conv.child = "handler"
    /\ conv' = [conv EXCEPT
                  !.status_file = SaveStatus(@, conv.model_id,
                                             ErrorStatus(conv.error)),
                  !.wrote = @ + 1,
                  !.child = "clean"]
    /\ UNCHANGED convFrame

\* Lines 42, 47, 52: clean_all_cache in the handler.
ChildClean ==
    /\ conv.pc = "wait"
    /\ conv.child = "clean"
    /\ conv' = [conv EXCEPT !.cache = "clean", !.child = "put"]
    /\ UNCHANGED convFrame

\* Lines 43, 48, 53 and 55: result_queue.put(False); return.
ChildPut ==
    /\ conv.pc = "wait"
    /\ conv.child = "put"
    /\ conv' = [conv EXCEPT
                  !.result_queue = Append(@, FALSE),
                  !.child = "returned"]
    /\ UNCHANGED convFrame

\* The system kills the subprocess before it has put a result.
ChildKilled ==
    /\ conv.pc = "wait"
    /\ conv.child \in {"export", "handler", "clean", "put"}
    /\ conv' = [conv EXCEPT
                  !.cache = IF conv.child = "export" THEN "dirty" ELSE @,
                  !.child = "killed"]
    /\ UNCHANGED convFrame

\* Lines 147-155: after join, the result queue is empty (system_kill), or
\* holds False (skip) or True (go on).
ParentJoin ==
    /\ conv.pc = "wait"
    /\ conv.child \in {"returned", "killed"}
    /\ IF conv.result_queue = << >>
       THEN conv' = [conv EXCEPT
                       !.pc = "loop",
                       !.child = "none",
                       !.status_file = SaveStatus(@, conv.model_id,
                                                  FixedStatus("system_kill"))]
       ELSE conv' = [conv EXCEPT
                       !.pc = IF Head(conv.result_queue) THEN "listing" ELSE "loop",
                       !.result_queue = Tail(@),
                       !.child = "none"]
    /\ UNCHANGED convFrame

\* Lines 158-172: the .onnx files found in the convert cache, and the labels;
\* a failure of the model card is recorded as labels_miss.
ConvListing ==
    /\ conv.pc = "listing"
    /\ \E found \in 0..MaxOnnx, labels_ok \in BOOLEAN :
         conv' = [conv EXCEPT
                    !.pc = "instances",
                    !.files = found,
                    !.status_file =
                        IF labels_ok THEN @
                        ELSE SaveStatus(@, conv.model_id,
                                        FixedStatus("labels_miss"))]
    /\ UNCHANGED convFrame

\* Lines 174-186: one .onnx file is saved as an instance (success) or the
\* conversion or the saving raises (fail).
ConvInstance ==
    /\ conv.pc = "instances"
    /\ conv.files > 0
    /\ \E saved_ok \in BOOLEAN :
         conv' = [conv EXCEPT
                    !.files = @ - 1,
                    !.saved = IF saved_ok THEN @ \cup {conv.model_id} ELSE @,
                    !.status_file =
                        SaveStatus(@, conv.model_id,
                                   FixedStatus(IF saved_ok THEN "success"
                                               ELSE "fail"))]
    /\ UNCHANGED convFrame

\* Line 188: clean_all_cache after the last file.
ConvClean ==
    /\ conv.pc = "instances"
    /\ conv.files = 0
    /\ conv' = [conv EXCEPT !.pc = "loop", !.cache = "clean"]
    /\ UNCHANGED convFrame

\* main is run again with the same list, the same directories and any
\* threshold.
ConvRerun ==
    /\ conv.pc = "done"
    /\ conv.run = 1
    /\ \E t \in Thresholds :
         conv' = [conv EXCEPT !.pc = "check", !.run = 2, !.threshold = t]
    /\ UNCHANGED convFrame

\* One run of main.
NextExport ==
    \/ ConvCheck
    \/ ConvNext
    \/ ConvFinish
    \/ ConvInfer
    \/ ChildExport
    \/ ChildSaveStatus
    \/ ChildClean
    \/ ChildPut
    \/ ChildKilled
    \/ ParentJoin
    \/ ConvListing
    \/ ConvInstance
    \/ ConvClean

SpecExport == InitConvert /\ [][NextExport]_vars

\* A run of main and a rerun.

NextConvert ==
    \/ ConvCheck
    \/ ConvNext
    \/ ConvFinish
    \/ ConvInfer
    \/ ChildExport
    \/ ChildSaveStatus
    \/ ChildClean
    \/ ChildPut
    \/ ChildKilled
    \/ ParentJoin
    \/ ConvListing
    \/ ConvInstance
    \/ ConvClean
    \/ ConvRerun

SpecConvert == InitConvert /\ [][NextConvert]_vars

----------------------------------------------------------------------------
\* builder.py: get_onnx_official_onnx_models, a generator that loads every
\* model of the hub, trying each up to total_try times.

\* total_try = 10
TotalTry == 10

\* The generator is created: all_models is sorted, nothing is loaded yet.
\* A loaded model is written as the position of the model_info it was
\* loaded for, from 1; 0 stands for the local onnx_model being unbound.
GenStart ==
    [pc |-> "for", index |-> 0, i |-> 0, loads |-> 0, onnx_model |-> 0,
     yielded |-> << >>]

InitHub ==
    /\ step = [num |-> 1, den |-> 200]
    /\ tracked = 0
    /\ upd = NoUpd
    /\ scope = FirstScope
    /\ conv = NoConv
    /\ queue = << >>
    /\ qsrc = << >>
    /\ wtotal = [w \in Workers |-> 0]
    /\ widx = [w \in Workers |-> 0]
    /\ wpc = [w \in Workers |-> "loop"]
    /\ sent = [w \in Workers |-> 0]
    /\ putw = [w \in Workers |-> 0]
    /\ nput = 0
    /\ run_total = 0
    /\ CoordInit
    /\ lastCall = NoCall
    /\ ncalls = 0
    /\ handle = "proxy"
    /\ copies = << >>
    /\ lastOutcome = NoOutcome
    /\ split = NoSplit
    /\ gen = GenStart

genFrame == << step, tracked, conv, scope, upd, queue, qsrc, workerVars, nput,
              run_total, coordVars, callVars >>

\* for model_info in all_models: the next entry; total_try = 10; i starts at 0.
GenNextModel ==
    /\ gen.pc = "for"
    /\ gen.index < NumHubModels
    /\ gen' = [gen EXCEPT !.pc = "try", !.index = @ + 1, !.i = 0, !.loads = 0]
    /\ UNCHANGED genFrame

\* all_models is exhausted: the generator returns.
GenReturn ==
    /\ gen.pc = "for"
    /\ gen.index = NumHubModels
    /\ gen' = [gen EXCEPT !.pc = "returned"]
    /\ UNCHANGED genFrame

\* for i in range(total_try): hub.load succeeds (break) or raises (next i).
GenLoad ==
    /\ gen.pc = "try"
    /\ gen.i < TotalTry
    /\ \E loaded \in BOOLEAN :
         IF loaded
         THEN gen' = [gen EXCEPT !.pc = "yield", !.loads = @ + 1,
                                 !.onnx_model = gen.index]
         ELSE gen' = [gen EXCEPT !.i = @ + 1, !.loads = @ + 1]
    /\ UNCHANGED genFrame

\* range(total_try) is exhausted without a break.
GenExhausted ==
    /\ gen.pc = "try"
    /\ gen.i = TotalTry
    /\ gen' = [gen EXCEPT !.pc = "yield"]
    /\ UNCHANGED genFrame

\* yield (model_info.model, onnx_model); reading the unbound local raises
\* UnboundLocalError out of the generator.
GenYield ==
    /\ gen.pc = "yield"
    /\ IF gen.onnx_model = 0
       THEN gen' = [gen EXCEPT !.pc = "raised"]
       ELSE gen' = [gen EXCEPT
                      !.pc = "for",
                      !.yielded = Append(@, << gen.index, gen.onnx_model >>)]
    /\ UNCHANGED genFrame

NextHub ==
    \/ GenNextModel
    \/ GenReturn
    \/ GenLoad
    \/ GenExhausted
    \/ GenYield

SpecHub == InitHub /\ [][NextHub]_vars

----------------------------------------------------------------------------
\* Properties

SentTotal == SumSeq([k \in 1..NumWorkers |-> sent[k]])

\* C1: a worker that called update(i, L) for i = 0..L-1 and then final(L) has
\* put deltas whose sum is exactly L.
C1_NoLossNoDoubleCount ==
    \A w \in Workers : wpc[w] = "done" => sent[w] = wtotal[w]

\* C2 (as stated): once the scope has exited with the queue drained and the
\* bar closed, the displayed total equals the sum of all deltas put.
C2_DisplayedEqualsSent ==
    (cpc = "closed" /\ queue = << >>) => bar_n = SentTotal

\* C2 (amended): once the scope has exited with the queue drained and the bar
\* closed, the displayed total equals the sum of all deltas put plus the n
\* (1 by default) of every tracker.update call, whatever the interleaving.
C2_DisplayedEqualsSentPlusAdded ==
    (cpc = "closed" /\ queue = << >>) => bar_n = SentTotal + added

C2_Witness ==
    /\ cpc = "closed"
    /\ queue = << >>
    /\ SentTotal > 0
    /\ added > 0
    /\ got > 0

PhaseOrder ==
    { << "Idle", "Running" >>, << "Running", "Draining" >>,
      << "Draining", "Closed" >> }

\* C3: on the normal and on the exception path the coordinator passes
\* Idle -> Running -> Draining -> Closed in that order only; the drain loop
\* has seen the queue empty before the bar is closed, and the bar is not
\* updated once it is closed.
C3_DrainThenClose ==
    [][ /\ (ListenerState' # ListenerState
              => << ListenerState, ListenerState' >> \in PhaseOrder)
        /\ (cpc' = "close" /\ cpc # "close"
              => cpc \in {"drain_test", "drain_get"} /\ queue = << >>)
        /\ (bar_state' = "closed" /\ bar_state # "closed" => cpc = "close")
        /\ (bar_state = "closed" => bar_n' = bar_n /\ bar_state' = "closed")
      ]_vars

C3_Witness ==
    /\ ListenerState = "Closed"
    /\ bar_state = "closed"
    /\ raised
    /\ got > 0

\* C4: every message whose put completed before the scope exit began has
\* been removed from the queue and applied to the bar when the bar is closed.
C4_NoDropBeforeStop ==
    cpc \in {"close", "closed"} => got >= putAtStop

C4_Witness ==
    /\ cpc = "closed"
    /\ raised
    /\ added = 0
    /\ putAtStop > 0
    /\ nput > putAtStop

C6_EndToEnd ==
    (cpc = "closed" /\ ~raised)
        => bar_n = 100 /\ completed = 2 /\ ListenerState = "Closed"

\* max(1, floor(total * percent / 100)) with percent = 100 * step.
PolicyInterval(total) ==
    Max(1, (total * (100 * step.num)) \div (100 * step.den))

C8_ClampNoDrop ==
    \A w \in Workers :
        /\ UpdateInterval(wtotal[w]) >= 1
        /\ (wpc[w] = "done" /\ IntOf(wtotal[w] * step.num, step.den) = 0
              => sent[w] = wtotal[w])

\* C9: every message on the queue is a strictly positive integer, whatever
\* current_index, total and step the calls were made with.
C9_PositiveDeltas ==
    \A k \in 1..Len(queue) : queue[k] \in Int /\ queue[k] >= 1

C9_Witness ==
    /\ step.num < 0
    /\ lastCall.op = "final"
    /\ lastCall.total < 0
    /\ lastCall.msgs # << >>
    /\ Len(queue) = MaxCalls

\* C10: no step decreases the displayed total.
C10_DisplayedMonotone ==
    [][bar_n' >= bar_n]_vars

C10_Witness ==
    /\ cpc = "closed"
    /\ added > 0
    /\ got > 0
    /\ raised

\* C11: a second final(total) right after a first one, through the same
\* object and with no update in between, puts nothing on the queue.
C11_FlushIdempotent ==
    [][ ( /\ step.num > 0
          /\ lastCall.op = "final"
          /\ lastCall.total > 0
          /\ lastOutcome.result = "returned"
          /\ ncalls' = ncalls + 1
          /\ lastCall'.op = "final"
          /\ lastCall'.total = lastCall.total
          /\ lastOutcome'.via = lastOutcome.via
          /\ lastOutcome'.result = "returned" )
        => lastCall'.msgs = << >>
      ]_vars

\* C12: between two update calls of a worker (update(i, L) returned, final
\* not yet called) the units it has processed and not sent are at most
\* interval - 1.
C12_BoundedRemainder ==
    \A w \in Workers :
        (wpc[w] = "loop" /\ widx[w] > 0)
            => widx[w] - sent[w] <= UpdateInterval(wtotal[w]) - 1

\* C13: the messages of one worker are applied to the bar in the order the
\* worker put them, none skipped, however the workers' puts interleave; and
\* the messages of one worker wait in the queue in that order.
C13_PerProducerFifo ==
    /\ [][\A w \in Workers : lastSeq'[w] \in {lastSeq[w], lastSeq[w] + 1}]_vars
    /\ [](\A k \in 1..Len(qsrc) :
            qsrc[k][1] \in Workers
                => /\ lastSeq[qsrc[k][1]] < qsrc[k][2]
                   /\ \A j \in 1..(k - 1) :
                        qsrc[j][1] = qsrc[k][1] => qsrc[j][2] < qsrc[k][2])

C13_Witness ==
    /\ tracked \in Workers
    /\ Len(qsrc) >= 2
    /\ qsrc[1][1] = 0
    /\ qsrc[2][1] = tracked
    /\ lastSeq[tracked] >= 1
    /\ cpc \in {"drain_test", "drain_get"}

\* C14: a worker that is still in its loop can always take its next step,
\* update or final, whatever the number of queued messages: the put never
\* waits for the coordinator.
C14_NoBackpressure ==
    \A w \in Workers :
        (cpc # "idle" /\ wpc[w] = "loop")
            => ENABLED (WorkerUpdate(w) \/ WorkerFinal(w))

C14_Witness ==
    /\ \A w \in Workers : wpc[w] = "done"
    /\ got = 0
    /\ cpc = "body"
    /\ Len(queue) = nput
    /\ nput >= 3

\* C15: when a worker signals completion (its task returns) it has flushed
\* every unsent unit, and afterwards it puts nothing more and stays
\* completed: one completion, after all of its deltas.
C15_FlushThenDone ==
    [][ \A w \in Workers :
          /\ (wpc[w] # "done" /\ wpc'[w] = "done") => sent'[w] = wtotal[w]
          /\ wpc[w] = "done" => (wpc'[w] = "done" /\ putw'[w] = putw[w])
      ]_vars

\* C16 (as stated): every call of update or final on an object whose queue
\* is None fails with an error.
C16_UnavailableAlwaysFails ==
    (lastCall.op # "none" /\ lastOutcome.handle = "none")
        => lastOutcome.result = "raised"

\* The call recorded in lastCall had a message to put.
LastCallWouldPut ==
    \/ /\ lastCall.op = "update"
       /\ lastCall.index > 0
       /\ lastCall.index % lastCall.interval = 0
    \/ /\ lastCall.op = "final"
       /\ lastCall.total % lastCall.interval > 0

\* C16 (amended): a call of update or final on an object whose queue is None
\* fails with an error exactly when it has a message to put, and puts
\* nothing; a call with nothing to put returns normally.
C16_UnavailableFailsOnPut ==
    (lastCall.op # "none" /\ lastOutcome.handle = "none")
        => /\ lastOutcome.result = "raised" <=> LastCallWouldPut
           /\ lastCall.msgs = << >>

C16_Witness ==
    /\ handle = "none"
    /\ lastOutcome.via = "manager"
    /\ lastOutcome.handle = "none"
    /\ lastOutcome.result = "raised"
    /\ lastCall.op = "final"

\* C17: a manager with a non-positive step is never constructed, so no call
\* is made on one and no message is sent; a run with a non-positive total
\* creates no display.
C17_ConfigErrorsRaised ==
    /\ step.num <= 0 => (lastCall.op = "none" /\ nput = 0)
    /\ run_total <= 0 => bar_state = "none"

\* C18: the unpickled copy has the step and worker_number of the manager and
\* the same queue reference; pickling leaves the queue's contents alone; and
\* what is put through the copy arrives in the manager's queue.
C18_PickleRoundTrip ==
    /\ [][copies' # copies => (queue' = queue /\ copies' = << ManagerObject >>)]_vars
    /\ [](copies # << >>
            => /\ copies[1].step = step
               /\ copies[1].worker_number = NumWorkers
               /\ copies[1].queue \in {"proxy", "none"}
               /\ copies[1].queue = "none" => handle = "none")
    /\ []((lastOutcome.via = "copy" /\ lastCall.msgs # << >>)
            => /\ Len(queue) >= Len(lastCall.msgs)
               /\ SubSeq(queue, Len(queue) - Len(lastCall.msgs) + 1, Len(queue))
                    = lastCall.msgs)

C18_Witness ==
    /\ copies # << >>
    /\ lastOutcome.via = "copy"
    /\ lastCall.msgs # << >>
    /\ handle = "none"
    /\ queue # << >>

\* C19: a worker's update or final changes the queue only, by appending, and
\* leaves the bar and the coordinator's counters alone; a coordinator step
\* puts nothing and at most removes the oldest message.
C19_SingleWriter ==
    [][ /\ (widx' # widx \/ wpc' # wpc)
            => /\ UNCHANGED << bar_n, bar_total, bar_state, cpc, completed,
                               got, added, step, handle >>
               /\ Len(queue') >= Len(queue)
               /\ SubSeq(queue', 1, Len(queue)) = queue
        /\ cpc' # cpc
            => /\ nput' = nput
               /\ queue' = queue \/ (queue # << >> /\ queue' = Tail(queue))
               /\ UNCHANGED << sent, putw, step, handle >>
      ]_vars

C19_Witness ==
    /\ cpc = "closed"
    /\ \A w \in Workers : wpc[w] = "done"
    /\ got > 0
    /\ nput > got

RECURSIVE Flatten(_)
Flatten(ss) == IF ss = << >> THEN << >> ELSE Head(ss) \o Flatten(Tail(ss))

\* C20: for 0 < chunk_count <= len(sequence), split_sequence returns exactly
\* chunk_count chunks, none of them empty, whose concatenation in order is
\* the input sequence.
C20_SplitPartition ==
    /\ split.pc = "returned"
         => /\ Len(split.chunks) = split.chunk_count
            /\ \A k \in 1..Len(split.chunks) : split.chunks[k] # << >>
            /\ Flatten(split.chunks) = split.sequence
    /\ (split.pc \in {"returned", "failed"} /\ 0 < split.chunk_count
          /\ split.chunk_count <= Len(split.sequence))
         => split.pc = "returned"

C20_Witness ==
    /\ split.pc = "returned"
    /\ split.sequence = << 1, 2, 3, 4, 5 >>
    /\ split.chunks = << << 1, 2, 3 >>, << 4, 5 >> >>

\* The input of the activation of split_sequence is valid.
SplitValid ==
    /\ 0 < split.chunk_count
    /\ split.chunk_count <= Len(split.sequence)

\* C21: on return the first len(sequence) mod chunk_count chunks have
\* len(sequence) div chunk_count + 1 elements and the others one less, so
\* the lengths are non-increasing and differ by at most 1; with chunk_count
\* <= 0 or chunk_count > len(sequence) the call fails its assertion: it
\* builds no chunk and never returns.
C21_SplitEven ==
    /\ split.pc = "returned"
         => \A k \in 1..Len(split.chunks) :
              Len(split.chunks[k])
                = (Len(split.sequence) \div split.chunk_count)
                  + (IF k <= Len(split.sequence) % split.chunk_count
                     THEN 1 ELSE 0)
    /\ split.pc = "returned"
         => \A j, k \in 1..Len(split.chunks) :
              j <= k => /\ Len(split.chunks[j]) >= Len(split.chunks[k])
                        /\ Len(split.chunks[j]) - Len(split.chunks[k]) <= 1
    /\ (split.pc # "none" /\ ~SplitValid)
         => (split.pc \in {"called", "failed"} /\ split.chunks = << >>)

C21_Witness ==
    /\ split.pc = "returned"
    /\ Len(split.sequence) = 5
    /\ split.chunk_count = 3
    /\ Len(split.chunks[1]) = 2
    /\ Len(split.chunks[3]) = 1

\* ceil(a / b) for a >= 0 and b > 0.
CeilDiv(a, b) == (a + b - 1) \div b

C23_DrainTerminates ==
    /\ [](ListenerState = "Draining"
            => ENABLED (DrainTest \/ DrainGet \/ BarClose))
    /\ (ListenerState = "Draining") ~> (ListenerState = "Closed")
    /\ []((ListenerState = "Closed" /\ putAtStop = nput) => queue = << >>)

C23_Witness ==
    /\ ListenerState = "Closed"
    /\ raised
    /\ putAtStop < nput
    /\ got > 0
    /\ \E w \in Workers : wpc[w] = "loop"

\* C24: a tracker.update() call removes messages from the head of the queue
\* and applies each to the bar as it removes it; when it adds its n = 1 and
\* returns it has removed at least the messages queued when it began, and the
\* bar has grown by the sum of the removed values plus 1; if no message was
\* put during the call it removed exactly those and leaves the queue empty.
C24_DrainThenCount ==
    [][ /\ (cpc = "upd_get" /\ cpc' # cpc /\ queue # << >>)
            => /\ queue' = Tail(queue)
               /\ bar_n' = bar_n + Head(queue)
        /\ (cpc = "upd_add" /\ cpc' = "body")
            => /\ bar_n' = upd.bar_n + upd.drained + 1
               /\ upd.gets >= upd.queued
               /\ nput = upd.nput
                    => (queue' = << >> /\ upd.gets = upd.queued)
      ]_vars

C24_Witness ==
    /\ cpc = "upd_add"
    /\ upd.queued >= 2
    /\ upd.gets = upd.queued
    /\ upd.drained >= 3
    /\ nput = upd.nput
    /\ queue = << >>

\* max(1, int(total * step)): the quotient when total * step >= 1, else 1.
SendInterval(total) ==
    IF total * step.num >= step.den
    THEN (total * step.num) \div step.den
    ELSE 1

\* C25: update(current_index, total) on an object that holds the queue puts
\* exactly one message, of value max(1, int(total * step)), when
\* current_index > 0 and current_index is a multiple of that interval, and
\* nothing otherwise; the call appends what it puts to the queue and leaves
\* step, the queue handle and the unpickled copy as they were.
C25_UpdateSendCondition ==
    /\ []((lastCall.op = "update" /\ lastOutcome.handle = "proxy")
            => /\ lastOutcome.result = "returned"
               /\ lastCall.msgs
                    = IF /\ lastCall.index > 0
                         /\ lastCall.index % SendInterval(lastCall.total) = 0
                      THEN << SendInterval(lastCall.total) >>
                      ELSE << >>)
    /\ [][(ncalls' = ncalls + 1 /\ lastCall'.op = "update")
            => /\ queue' = (IF lastOutcome'.handle = "proxy"
                            THEN queue \o lastCall'.msgs ELSE queue)
               /\ UNCHANGED << step, handle, copies >>
         ]_vars

C25_Witness ==
    /\ lastCall.op = "update"
    /\ lastOutcome.handle = "proxy"
    /\ lastCall.index = 2
    /\ lastCall.total = 3
    /\ lastCall.msgs = << 2 >>
    /\ queue = << 2 >>

\* C26: when every worker had returned and put its last message before the
\* coordinator began to leave the scope, the queue is empty once the scope
\* has exited, a later scope on the same manager finds no message queued,
\* and in that later scope the bar shows only what its own workers sent plus
\* the n of its own tracker.update calls.
C26_NoStaleDeltas ==
    /\ []((cpc = "closed" /\ putAtStop = nput
             /\ \A w \in Workers : wpc[w] = "done")
            => queue = << >>)
    /\ [][(cpc = "closed" /\ cpc' = "body" /\ putAtStop = nput
             /\ \A w \in Workers : wpc[w] = "done")
            => (scope'.stale = 0 /\ queue' = << >> /\ bar_n' = 0)]_vars
    /\ []((scope.again /\ scope.stale = 0)
            => /\ got <= nput
               /\ bar_n <= SentTotal + added)

C26_Witness ==
    /\ scope.again
    /\ scope.stale = 0
    /\ cpc = "closed"
    /\ got > 0
    /\ bar_n = SentTotal + added
    /\ SentTotal > 0

\* C27: when subprocess_export has returned it has put exactly one boolean,
\* True exactly when main_export raised nothing; at the moment it puts False
\* it has appended exactly one status record, for its model, and the caches
\* are clean; and when the parent finds the result queue empty after the
\* join it appends 'system_kill' for the model and goes to the next one,
\* saving nothing.
C27_ExportResultProtocol ==
    /\ [](conv.child = "returned"
            => /\ Len(conv.result_queue) = 1
               /\ conv.result_queue[1] <=> conv.error = "none")
    /\ [][(conv.pc = "wait" /\ conv'.result_queue = Append(conv.result_queue, FALSE))
            => /\ conv.wrote = 1
               /\ conv.cache = "clean"
               /\ conv.status_file[Len(conv.status_file)]
                    = StatusRecord(conv.model_id, ErrorStatus(conv.error))
         ]_vars
    /\ [][(conv.pc = "wait" /\ conv'.pc # "wait" /\ conv.result_queue = << >>)
            => /\ conv.child = "killed"
               /\ conv'.status_file
                    = Append(conv.status_file,
                             StatusRecord(conv.model_id,
                                          FixedStatus("system_kill")))
               /\ conv'.pc = "loop"
               /\ conv'.saved = conv.saved
         ]_vars

C27_Witness ==
    /\ conv.pc = "loop"
    /\ conv.error = "MemoryError"
    /\ conv.wrote = 1
    /\ conv.child = "none"
    /\ conv.cache = "clean"
    /\ Len(conv.status_file) = 1
    /\ conv.status_file[1].status = FixedStatus("memory_error")

\* The status file or the save directory holds a record of the model.
HasRecord(m) ==
    \/ m \in conv.saved
    \/ \E k \in 1..Len(conv.status_file) : conv.status_file[k].model_name = m

\* The thresholds N of the threshold_N records of the model.
RecordedThresholds(m) ==
    { Number(conv.status_file[k].status.digits) :
        k \in { j \in 1..Len(conv.status_file) :
                  /\ conv.status_file[j].model_name = m
                  /\ IsThresholdStatus(conv.status_file[j].status) } }

\* The model has a record other than a threshold_N line.
HasOtherRecord(m) ==
    \/ m \in conv.saved
    \/ \E k \in 1..Len(conv.status_file) :
         /\ conv.status_file[k].model_name = m
         /\ ~IsThresholdStatus(conv.status_file[k].status)

\* C28: every model main has attempted in a run has a record when main goes
\* on to the next model; a rerun with the same threshold attempts none of
\* the models attempted before; and a rerun attempts a model recorded before
\* only if its records were all threshold_N lines with N below the new
\* threshold.
C28_Resumable ==
    /\ conv.pc \in {"loop", "done", "check"}
         => \A m \in conv.attempted \cup conv.attempted_again : HasRecord(m)
    /\ (conv.run = 2 /\ conv.threshold = conv.first_threshold)
         => conv.attempted_again \cap conv.attempted = {}
    /\ (conv.run = 2 /\ conv.pc = "loop")
         => \A m \in conv.model_ids :
              /\ ~HasOtherRecord(m)
              /\ \A n \in RecordedThresholds(m) : conv.threshold > n

\* C29: hub.load is tried at most total_try = 10 times for a model_info and
\* not again after a success; every pair yielded carries the model loaded
\* for its own model_info; and the generator never fails on an unloaded
\* value.
C29_BoundedRetry ==
    /\ gen.pc # "none" => gen.loads <= TotalTry
    /\ (gen.pc = "yield" /\ gen.loads < TotalTry) => gen.onnx_model = gen.index
    /\ gen.pc # "none"
         => \A k \in 1..Len(gen.yielded) : gen.yielded[k][2] = gen.yielded[k][1]
    /\ gen.pc # "raised"

====
